---- MODULE Spec2Model ----
(***************************************************************************)
(* Model of graph-lib: the Graph container (a map from vertex id to        *)
(* Vertex, plus a mode), its mutation API, the breadth-first traversal and *)
(* the Trivial Graph Format codec.                                         *)
(***************************************************************************)
EXTENDS Integers, Sequences, FiniteSets, TLC

VARIABLES
    vertices,   \* Graph.vertices: id -> Vertex (a function on the present ids)
    type,       \* Graph.type: "Directed" or "Undirected", fixed at construction
    last,       \* the last API call made and what it returned
    nops,       \* number of API calls made so far
    pc,         \* where the caller is: "api", or inside bfs: "loop", "done"
    bfs_call,   \* the running bfs call: its start_id and its Result
    bfs_st,     \* the locals of the running bfs call
    doc,        \* the lines deserialize has taken from its reader so far
    scan_state, \* deserialize's scan_state: "Vertex" or "Edge"
    de_res,     \* the Result of deserialize (Ok while it is still reading)
    out         \* the lines serialize has written

codec_vars == <<doc, scan_state, de_res, out>>
bfs_vars == <<bfs_call, bfs_st>>
vars == <<vertices, type, last, nops, pc, bfs_call, bfs_st, doc, scan_state, de_res, out>>

\* ---------------------------------------------------------------- bounds
\* vertex ids used by the calls are 1..MaxId
MaxId == 3
\* number of API calls in one run
MaxOps == 4
\* number of edge directions in a graph handed to a traversal run
MaxEdges == 4
\* number of lines in a document handed to deserialize
MaxLines == 5

\* ---------------------------------------------------------------- values
\* Option<T>: None is the empty sequence, Some(x) the sequence holding x
NONE == <<>>
Some(x) == <<x>>
Ids == 1..MaxId
\* Option<VT> payloads handed to Vertex::new
VertexValues == {NONE, Some(<<"v">>)}
\* Option<ET> payloads handed to add_edge
EdgeValues == {NONE, Some(<<"p">>)}
\* the payload a traversal run gives the vertex it adds under an id
BuildValue(id) == IF id = 1 THEN Some(<<"v">>) ELSE NONE

GraphType == {"Directed", "Undirected"}
EdgeDirectionType == {"Strong", "Weak"}

\* payloads and lines of text are sequences of characters
\* Result values
Ok == [kind |-> "Ok", id |-> 0]
VertexAlreadyExist(id) == [kind |-> "VertexAlreadyExist", id |-> id]
VertexNotFound(id) == [kind |-> "VertexNotFound", id |-> id]
ParseVertexId(line) == [kind |-> "ParseVertexId", line |-> line]
WrongVertexIdType(line) == [kind |-> "WrongVertexIdType", line |-> line]

\* ---------------------------------------------------------------- Vertex, EdgeDirection
Vertex_new(id, value) == [id |-> id, value |-> value, edge_directions |-> <<>>]

EdgeDirection_new(to_vertex_id, value) ==
    [to_vertex_id |-> to_vertex_id, value |-> value, type |-> "Strong"]

EdgeDirection_new_weak(to_vertex_id, value) ==
    [to_vertex_id |-> to_vertex_id, value |-> value, type |-> "Weak"]

\* PartialEq for EdgeDirection: by target id only
EdgeDirection_eq(x, y) == x.to_vertex_id = y.to_vertex_id

\* Vec::contains with that equality
Vec_contains(data, x) == \E i \in 1..Len(data) : EdgeDirection_eq(data[i], x)

\* position of the first element with the given target, 0 when there is none
RECURSIVE position(_, _, _)
position(data, to_id, i) ==
    IF i > Len(data) THEN 0
    ELSE IF data[i].to_vertex_id = to_id THEN i
    ELSE position(data, to_id, i + 1)

\* Vec::remove(p)
Vec_remove(data, p) == [i \in 1..(Len(data) - 1) |-> IF i < p THEN data[i] ELSE data[i + 1]]

\* utils::remove_from_vec with the comparator |e| e.to_vertex_id == to_id
\* remove_from_vec that cuts the vector at the match instead of removing it
remove_from_vec_truncate(data, to_id) ==
    LET p == position(data, to_id, 1)
    IN  IF p = 0 THEN data ELSE SubSeq(data, 1, p - 1)

remove_from_vec(data, to_id) ==
    LET p == position(data, to_id, 1)
    IN  IF p = 0 THEN data ELSE Vec_remove(data, p)

\* ---------------------------------------------------------------- mutation API
\* Each operator takes the vertex map and returns the new map and the result.
RemoveKey(vs, id) == [k \in (DOMAIN vs) \ {id} |-> vs[k]]
InsertKey(vs, id, vertex) == [k \in (DOMAIN vs) \cup {id} |-> IF k = id THEN vertex ELSE vs[k]]

\* add_vertex without the contains_key check: HashMap::insert replaces the vertex
add_vertex_overwrite(vs, vertex) ==
    [vs |-> InsertKey(vs, vertex.id, vertex), res |-> Ok]

add_vertex(vs, vertex) ==
    IF vertex.id \in DOMAIN vs
    THEN [vs |-> vs, res |-> VertexAlreadyExist(vertex.id)]
    ELSE [vs |-> InsertKey(vs, vertex.id, vertex), res |-> Ok]

\* delete_vertex without the scan of the other vertices' edge lists
delete_vertex_no_scrub(vs, vertex_id) == RemoveKey(vs, vertex_id)

delete_vertex(vs, vertex_id) ==
    LET removed == RemoveKey(vs, vertex_id)
    IN  [k \in DOMAIN removed |->
            [removed[k] EXCEPT !.edge_directions = remove_from_vec(@, vertex_id)]]

\* add_edge_direction that overwrites an equal edge direction instead of keeping it
add_edge_direction_replace(vs, from_id, to_id, value, edge_direction_type) ==
    IF from_id \notin DOMAIN vs
    THEN [vs |-> vs, res |-> VertexNotFound(from_id)]
    ELSE LET edge_to == IF edge_direction_type = "Strong"
                        THEN EdgeDirection_new(to_id, value)
                        ELSE EdgeDirection_new_weak(to_id, value)
             p == position(vs[from_id].edge_directions, to_id, 1)
         IN  IF p # 0
             THEN [vs |-> [vs EXCEPT ![from_id].edge_directions[p] = edge_to], res |-> Ok]
             ELSE [vs |-> [vs EXCEPT ![from_id].edge_directions = Append(@, edge_to)],
                   res |-> Ok]

\* add_edge_direction without the contains check
add_edge_direction_no_dedup(vs, from_id, to_id, value, edge_direction_type) ==
    IF from_id \notin DOMAIN vs
    THEN [vs |-> vs, res |-> VertexNotFound(from_id)]
    ELSE LET edge_to == IF edge_direction_type = "Strong"
                        THEN EdgeDirection_new(to_id, value)
                        ELSE EdgeDirection_new_weak(to_id, value)
         IN  [vs |-> [vs EXCEPT ![from_id].edge_directions = Append(@, edge_to)],
              res |-> Ok]

add_edge_direction(vs, from_id, to_id, value, edge_direction_type) ==
    IF from_id \notin DOMAIN vs
    THEN [vs |-> vs, res |-> VertexNotFound(from_id)]
    ELSE LET edge_to == IF edge_direction_type = "Strong"
                        THEN EdgeDirection_new(to_id, value)
                        ELSE EdgeDirection_new_weak(to_id, value)
         IN  IF Vec_contains(vs[from_id].edge_directions, edge_to)
             THEN [vs |-> vs, res |-> Ok]
             ELSE [vs |-> [vs EXCEPT ![from_id].edge_directions = Append(@, edge_to)],
                   res |-> Ok]

add_edge_undirected(vs, from_id, to_id, value) ==
    LET r1 == add_edge_direction(vs, from_id, to_id, value, "Strong")
    IN  IF r1.res # Ok THEN r1
        ELSE add_edge_direction(r1.vs, to_id, from_id, value, "Weak")

\* the Directed arm without its upfront check of to_id
add_edge_directed_unchecked(vs, from_id, to_id, value) ==
    add_edge_direction(vs, from_id, to_id, value, "Strong")

add_edge_directed(vs, from_id, to_id, value) ==
    IF to_id \notin DOMAIN vs
    THEN [vs |-> vs, res |-> VertexNotFound(to_id)]
    ELSE add_edge_direction(vs, from_id, to_id, value, "Strong")

\* add_edge that mirrors the direction in both modes
add_edge_always_mirrored(vs, ty, from_id, to_id, value) ==
    add_edge_undirected(vs, from_id, to_id, value)

add_edge(vs, ty, from_id, to_id, value) ==
    IF ty = "Undirected"
    THEN add_edge_undirected(vs, from_id, to_id, value)
    ELSE add_edge_directed(vs, from_id, to_id, value)

delete_edge_direction(vs, from_id, to_id) ==
    IF from_id \in DOMAIN vs
    THEN [vs EXCEPT ![from_id].edge_directions = remove_from_vec(@, to_id)]
    ELSE vs

\* delete_edge that removes only the from -> to direction in both modes
delete_edge_one_side(vs, ty, from_id, to_id) ==
    delete_edge_direction(vs, from_id, to_id)

delete_edge(vs, ty, from_id, to_id) ==
    IF ty = "Undirected"
    THEN delete_edge_direction(delete_edge_direction(vs, from_id, to_id), to_id, from_id)
    ELSE delete_edge_direction(vs, from_id, to_id)

contains_vertex(vs, vertex_id) == vertex_id \in DOMAIN vs

\* ---------------------------------------------------------------- traversal
\* targets of a vertex's edge directions, in list order
Targets(vertex) ==
    [i \in 1..Len(vertex.edge_directions) |-> vertex.edge_directions[i].to_vertex_id]

\* the state of bfs before its while loop; the queue holds the keys of the
\* queued vertices
bfs_begin(start_id) ==
    [queue_vertex |-> <<start_id>>, visited_vertices |-> {}, result |-> <<>>,
     dequeues |-> 0]

\* one iteration of the while loop of bfs, taken with a non-empty queue
\* an iteration that enqueues only the first unvisited neighbour
bfs_step_first_only(vs, st) ==
    LET current_vertex == vs[Head(st.queue_vertex)]
        rest == Tail(st.queue_vertex)
    IN  IF current_vertex.id \in st.visited_vertices
        THEN [st EXCEPT !.queue_vertex = rest, !.dequeues = @ + 1]
        ELSE LET visited2 == st.visited_vertices \cup {current_vertex.id}
                 neighbours == SelectSeq(Targets(current_vertex),
                                         LAMBDA t : t \in DOMAIN vs)
                 neighbour_ids == [i \in 1..Len(neighbours) |-> vs[neighbours[i]].id]
                 pushed == SelectSeq(neighbours, LAMBDA t : vs[t].id \notin visited2)
             IN  [queue_vertex |-> rest \o (IF pushed = <<>> THEN <<>> ELSE <<pushed[1]>>),
                  visited_vertices |-> visited2,
                  result |-> Append(st.result, [id |-> current_vertex.id,
                                                value |-> current_vertex.value,
                                                neighbour_ids |-> neighbour_ids]),
                  dequeues |-> st.dequeues + 1]

\* an iteration that reports only the neighbours it enqueues
bfs_step_unvisited_neighbours(vs, st) ==
    LET current_vertex == vs[Head(st.queue_vertex)]
        rest == Tail(st.queue_vertex)
    IN  IF current_vertex.id \in st.visited_vertices
        THEN [st EXCEPT !.queue_vertex = rest, !.dequeues = @ + 1]
        ELSE LET visited2 == st.visited_vertices \cup {current_vertex.id}
                 neighbours == SelectSeq(Targets(current_vertex),
                                         LAMBDA t : t \in DOMAIN vs)
                 pushed == SelectSeq(neighbours, LAMBDA t : vs[t].id \notin visited2)
             IN  [queue_vertex |-> rest \o pushed,
                  visited_vertices |-> visited2,
                  result |-> Append(st.result, [id |-> current_vertex.id,
                                                value |-> current_vertex.value,
                                                neighbour_ids |-> pushed]),
                  dequeues |-> st.dequeues + 1]

\* an iteration without the visited check on the dequeued vertex
bfs_step_emit_every_dequeue(vs, st) ==
    LET current_vertex == vs[Head(st.queue_vertex)]
        rest == Tail(st.queue_vertex)
        visited2 == st.visited_vertices \cup {current_vertex.id}
        neighbours == SelectSeq(Targets(current_vertex), LAMBDA t : t \in DOMAIN vs)
        neighbour_ids == [i \in 1..Len(neighbours) |-> vs[neighbours[i]].id]
        pushed == SelectSeq(neighbours, LAMBDA t : vs[t].id \notin visited2)
    IN  [queue_vertex |-> rest \o pushed,
         visited_vertices |-> visited2,
         result |-> Append(st.result, [id |-> current_vertex.id,
                                       value |-> current_vertex.value,
                                       neighbour_ids |-> neighbour_ids]),
         dequeues |-> st.dequeues + 1]

\* an iteration that leaves an already visited vertex at the front of the queue
bfs_step_keep_visited(vs, st) ==
    LET current_vertex == vs[Head(st.queue_vertex)]
        rest == Tail(st.queue_vertex)
    IN  IF current_vertex.id \in st.visited_vertices
        THEN [st EXCEPT !.dequeues = @ + 1]
        ELSE LET visited2 == st.visited_vertices \cup {current_vertex.id}
                 neighbours == SelectSeq(Targets(current_vertex),
                                         LAMBDA t : t \in DOMAIN vs)
                 neighbour_ids == [i \in 1..Len(neighbours) |-> vs[neighbours[i]].id]
                 pushed == SelectSeq(neighbours, LAMBDA t : vs[t].id \notin visited2)
             IN  [queue_vertex |-> rest \o pushed,
                  visited_vertices |-> visited2,
                  result |-> Append(st.result, [id |-> current_vertex.id,
                                                value |-> current_vertex.value,
                                                neighbour_ids |-> neighbour_ids]),
                  dequeues |-> st.dequeues + 1]

bfs_step(vs, st) ==
    LET current_vertex == vs[Head(st.queue_vertex)]
        rest == Tail(st.queue_vertex)
    IN  IF current_vertex.id \in st.visited_vertices
        THEN [st EXCEPT !.queue_vertex = rest, !.dequeues = @ + 1]
        ELSE LET visited2 == st.visited_vertices \cup {current_vertex.id}
                 neighbours == SelectSeq(Targets(current_vertex),
                                         LAMBDA t : t \in DOMAIN vs)
                 neighbour_ids == [i \in 1..Len(neighbours) |-> vs[neighbours[i]].id]
                 pushed == SelectSeq(neighbours, LAMBDA t : vs[t].id \notin visited2)
             IN  [queue_vertex |-> rest \o pushed,
                  visited_vertices |-> visited2,
                  result |-> Append(st.result, [id |-> current_vertex.id,
                                                value |-> current_vertex.value,
                                                neighbour_ids |-> neighbour_ids]),
                  dequeues |-> st.dequeues + 1]

RECURSIVE bfs_loop(_, _)
bfs_loop(vs, st) ==
    IF st.queue_vertex = <<>> THEN st ELSE bfs_loop(vs, bfs_step(vs, st))

bfs(vs, start_id) ==
    IF start_id \notin DOMAIN vs
    THEN [res |-> VertexNotFound(start_id), records |-> <<>>]
    ELSE [res |-> Ok, records |-> bfs_loop(vs, bfs_begin(start_id)).result]

\* ---------------------------------------------------------------- the API as a state machine
\* changed: whether the call left the vertex map different from what it was
NoCall == [op |-> "new", a |-> 0, b |-> 0, value |-> NONE, res |-> Ok, changed |-> FALSE]

NoBfsCall == [start_id |-> 0, res |-> Ok]
NoBfs == [queue_vertex |-> <<>>, visited_vertices |-> {}, result |-> <<>>, dequeues |-> 0]

Init ==
    /\ vertices = <<>>
    /\ type \in GraphType
    /\ last = NoCall
    /\ nops = 0
    /\ pc = "api"
    /\ bfs_call = NoBfsCall
    /\ bfs_st = NoBfs
    /\ doc = <<>>
    /\ scan_state = "Vertex"
    /\ de_res = Ok
    /\ out = <<>>

AddVertex ==
    \E id \in Ids, value \in VertexValues :
        LET r == add_vertex(vertices, Vertex_new(id, value))
        IN  /\ pc = "api"
            /\ nops < MaxOps
            /\ vertices' = r.vs
            /\ last' = [op |-> "add_vertex", a |-> id, b |-> 0, value |-> value,
                        res |-> r.res, changed |-> r.vs # vertices]
            /\ nops' = nops + 1
            /\ UNCHANGED <<type, pc, bfs_vars, codec_vars>>

DeleteVertex ==
    \E id \in Ids :
        /\ pc = "api"
        /\ nops < MaxOps
        /\ vertices' = delete_vertex(vertices, id)
        /\ last' = [op |-> "delete_vertex", a |-> id, b |-> 0, value |-> NONE,
                    res |-> Ok, changed |-> vertices' # vertices]
        /\ nops' = nops + 1
        /\ UNCHANGED <<type, pc, bfs_vars, codec_vars>>

AddEdge ==
    \E from_id \in Ids, to_id \in Ids, value \in EdgeValues :
        LET r == add_edge(vertices, type, from_id, to_id, value)
        IN  /\ pc = "api"
            /\ nops < MaxOps
            /\ vertices' = r.vs
            /\ last' = [op |-> "add_edge", a |-> from_id, b |-> to_id, value |-> value,
                        res |-> r.res, changed |-> r.vs # vertices]
            /\ nops' = nops + 1
            /\ UNCHANGED <<type, pc, bfs_vars, codec_vars>>

DeleteEdge ==
    \E from_id \in Ids, to_id \in Ids :
        /\ pc = "api"
        /\ nops < MaxOps
        /\ vertices' = delete_edge(vertices, type, from_id, to_id)
        /\ last' = [op |-> "delete_edge", a |-> from_id, b |-> to_id, value |-> NONE,
                    res |-> Ok, changed |-> vertices' # vertices]
        /\ nops' = nops + 1
        /\ UNCHANGED <<type, pc, bfs_vars, codec_vars>>

Next == AddVertex \/ DeleteVertex \/ AddEdge \/ DeleteEdge

Spec == Init /\ [][Next]_vars

\* ---------------------------------------------------------------- a traversal run
\* A caller builds a graph through the API and then runs bfs on it; bfs borrows
\* the graph, so the graph does not change while the loop runs.
RECURSIVE SumLen(_, _)
SumLen(vs, ids) ==
    IF ids = {} THEN 0
    ELSE LET k == CHOOSE x \in ids : TRUE
         IN  Len(vs[k].edge_directions) + SumLen(vs, ids \ {k})

EdgeCount(vs) == SumLen(vs, DOMAIN vs)

BuildVertex ==
    \E id \in Ids :
        /\ pc = "api"
        /\ vertices' = add_vertex(vertices, Vertex_new(id, BuildValue(id))).vs
        /\ UNCHANGED <<type, last, nops, pc, bfs_vars, codec_vars>>

BuildEdge ==
    \E from_id \in Ids, to_id \in Ids :
        /\ pc = "api"
        /\ EdgeCount(vertices) < MaxEdges
        /\ vertices' = add_edge(vertices, type, from_id, to_id, NONE).vs
        /\ EdgeCount(vertices') <= MaxEdges
        /\ UNCHANGED <<type, last, nops, pc, bfs_vars, codec_vars>>

\* bfs, lines 147-153: the lookup of start_id and the seeding of the queue
BfsStart ==
    \E s \in Ids :
        /\ pc = "api"
        /\ IF s \in DOMAIN vertices
           THEN /\ pc' = "loop"
                /\ bfs_call' = [start_id |-> s, res |-> Ok]
                /\ bfs_st' = bfs_begin(s)
           ELSE /\ pc' = "done"
                /\ bfs_call' = [start_id |-> s, res |-> VertexNotFound(s)]
                /\ bfs_st' = NoBfs
        /\ UNCHANGED <<vertices, type, last, nops, codec_vars>>

\* one iteration of the while loop
BfsIterate ==
    /\ pc = "loop"
    /\ bfs_st.queue_vertex # <<>>
    /\ bfs_st' = bfs_step(vertices, bfs_st)
    /\ UNCHANGED <<vertices, type, last, nops, pc, bfs_call, codec_vars>>

\* the loop ends on an empty queue and bfs returns Ok(result)
BfsReturn ==
    /\ pc = "loop"
    /\ bfs_st.queue_vertex = <<>>
    /\ pc' = "done"
    /\ UNCHANGED <<vertices, type, last, nops, bfs_vars, codec_vars>>

NextBfs == BuildVertex \/ BuildEdge \/ BfsStart \/ BfsIterate \/ BfsReturn

SpecBfs == Init /\ [][NextBfs]_vars

\* bfs runs to completion once called: the while loop keeps iterating and the
\* function returns when the queue is empty
SpecBfsFair == SpecBfs /\ WF_vars(BfsIterate) /\ WF_vars(BfsReturn)

\* ---------------------------------------------------------------- text format codec
VERTEX_EDGE_DELEMITER == <<"#">>
DATA_DELIMITER == " "

\* u32::MAX, the largest DefaultGraphIdType, in decimal digits
U32MaxDigits == <<"4", "2", "9", "4", "9", "6", "7", "2", "9", "5">>

Digits == <<"0", "1", "2", "3", "4", "5", "6", "7", "8", "9">>
IsDigit(c) == \E d \in 1..10 : Digits[d] = c
DigitValue(c) == (CHOOSE d \in 1..10 : Digits[d] = c) - 1

\* char::is_whitespace, for the characters of the modelled alphabet
IsWhitespace(c) == c = " "

\* str::trim
RECURSIVE trim(_)
trim(line) ==
    IF line # <<>> /\ IsWhitespace(line[1]) THEN trim(Tail(line))
    ELSE IF line # <<>> /\ IsWhitespace(line[Len(line)])
    THEN trim(SubSeq(line, 1, Len(line) - 1))
    ELSE line

\* str::split(DATA_DELIMITER), collected: always at least one (maybe empty) token
RECURSIVE split(_)
split(line) ==
    IF \A i \in 1..Len(line) : line[i] # DATA_DELIMITER
    THEN <<line>>
    ELSE LET p == CHOOSE i \in 1..Len(line) :
                      /\ line[i] = DATA_DELIMITER
                      /\ \A j \in 1..(i - 1) : line[j] # DATA_DELIMITER
         IN  <<SubSeq(line, 1, p - 1)>> \o split(SubSeq(line, p + 1, Len(line)))

\* [&str]::join(DATA_DELIMITER)
RECURSIVE join(_)
join(tokens) ==
    IF tokens = <<>> THEN <<>>
    ELSE IF Len(tokens) = 1 THEN tokens[1]
    ELSE tokens[1] \o <<DATA_DELIMITER>> \o join(Tail(tokens))

\* the value of a run of decimal digits
RECURSIVE DecimalValue(_)
DecimalValue(digits) ==
    IF digits = <<>> THEN 0
    ELSE 10 * DecimalValue(SubSeq(digits, 1, Len(digits) - 1))
         + DigitValue(digits[Len(digits)])

\* digits without their leading zeros
RECURSIVE StripZeros(_)
StripZeros(digits) ==
    IF digits # <<>> /\ digits[1] = "0" THEN StripZeros(Tail(digits)) ELSE digits

\* whether the number written by the digits exceeds u32::MAX
Overflows(digits) ==
    LET sig == StripZeros(digits)
    IN  \/ Len(sig) > Len(U32MaxDigits)
        \/ /\ Len(sig) = Len(U32MaxDigits)
           /\ \E i \in 1..Len(sig) :
                 /\ DigitValue(sig[i]) > DigitValue(U32MaxDigits[i])
                 /\ \A j \in 1..(i - 1) : sig[j] = U32MaxDigits[j]

\* str::parse::<u32>: an optional '+', then one or more digits, at most
\* u32::MAX; -1 stands for Err
parse_u32(token) ==
    LET digits == IF token # <<>> /\ token[1] = "+" THEN Tail(token) ELSE token
    IN  IF digits = <<>> \/ \E i \in 1..Len(digits) : ~IsDigit(digits[i]) THEN -1
        ELSE IF Overflows(digits) THEN -1
        ELSE DecimalValue(digits)

\* Display for u32
RECURSIVE to_string(_)
to_string(n) ==
    IF n < 10 THEN <<Digits[n + 1]>>
    ELSE Append(to_string(n \div 10), Digits[(n % 10) + 1])

\* the optional value made of the tokens from position `first` on
rest_value(tokens, first) ==
    LET value == join(SubSeq(tokens, first, Len(tokens)))
    IN  IF value = <<>> THEN NONE ELSE Some(value)

parse_vertex(line) ==
    LET vertex_data == split(line)
    IN  IF vertex_data = <<>>
        THEN [res |-> ParseVertexId(line), vertex |-> Vertex_new(0, NONE)]
        ELSE IF parse_u32(vertex_data[1]) < 0
        THEN [res |-> WrongVertexIdType(line), vertex |-> Vertex_new(0, NONE)]
        ELSE [res |-> Ok,
              vertex |-> Vertex_new(parse_u32(vertex_data[1]), rest_value(vertex_data, 2))]

is_delimiter(line) == line = VERTEX_EDGE_DELEMITER

NoEdge == [from |-> 0, to |-> 0, value |-> NONE]

\* parse_edge without the two contains_vertex checks
parse_edge_unchecked(line, vs) ==
    LET edge_data == split(line)
    IN  IF edge_data = <<>>
        THEN [res |-> ParseVertexId(line), edge |-> NoEdge]
        ELSE IF parse_u32(edge_data[1]) < 0
        THEN [res |-> WrongVertexIdType(line), edge |-> NoEdge]
        ELSE IF Len(edge_data) < 2
        THEN [res |-> ParseVertexId(line), edge |-> NoEdge]
        ELSE IF parse_u32(edge_data[2]) < 0
        THEN [res |-> WrongVertexIdType(line), edge |-> NoEdge]
        ELSE [res |-> Ok,
              edge |-> [from |-> parse_u32(edge_data[1]), to |-> parse_u32(edge_data[2]),
                        value |-> rest_value(edge_data, 3)]]

parse_edge(line, vs) ==
    LET edge_data == split(line)
    IN  IF edge_data = <<>>
        THEN [res |-> ParseVertexId(line), edge |-> NoEdge]
        ELSE IF parse_u32(edge_data[1]) < 0
        THEN [res |-> WrongVertexIdType(line), edge |-> NoEdge]
        ELSE IF Len(edge_data) < 2
        THEN [res |-> ParseVertexId(line), edge |-> NoEdge]
        ELSE IF parse_u32(edge_data[2]) < 0
        THEN [res |-> WrongVertexIdType(line), edge |-> NoEdge]
        ELSE LET first_vertex_id == parse_u32(edge_data[1])
                 second_vertex_id == parse_u32(edge_data[2])
             IN  IF ~contains_vertex(vs, first_vertex_id)
                 THEN [res |-> VertexNotFound(first_vertex_id), edge |-> NoEdge]
                 ELSE IF ~contains_vertex(vs, second_vertex_id)
                 THEN [res |-> VertexNotFound(second_vertex_id), edge |-> NoEdge]
                 ELSE [res |-> Ok,
                       edge |-> [from |-> first_vertex_id, to |-> second_vertex_id,
                                 value |-> rest_value(edge_data, 3)]]

\* the line serialize writes for a vertex
vertex_line(vertex) ==
    IF vertex.value # NONE
    THEN to_string(vertex.id) \o <<" ">> \o vertex.value[1]
    ELSE to_string(vertex.id)

\* the line serialize writes for an edge direction of a vertex
edge_line(vertex, edge_direction) ==
    IF edge_direction.value # NONE
    THEN to_string(vertex.id) \o <<" ">> \o to_string(edge_direction.to_vertex_id)
         \o <<" ">> \o edge_direction.value[1]
    ELSE to_string(vertex.id) \o <<" ">> \o to_string(edge_direction.to_vertex_id)

\* the edge lines of one vertex: serialize writes Weak directions too
edge_lines_with_weak(vertex) ==
    [i \in 1..Len(vertex.edge_directions) |-> edge_line(vertex, vertex.edge_directions[i])]

\* the edge lines of one vertex: one per Strong direction, Weak ones skipped
edge_lines(vertex) ==
    LET strong == SelectSeq(vertex.edge_directions, LAMBDA e : e.type # "Weak")
    IN  [i \in 1..Len(strong) |-> edge_line(vertex, strong[i])]

RECURSIVE Flatten(_)
Flatten(seqs) == IF seqs = <<>> THEN <<>> ELSE Head(seqs) \o Flatten(Tail(seqs))

\* the orders in which HashMap::values may yield the vertices
Orders(vs) ==
    {o \in [1..Cardinality(DOMAIN vs) -> DOMAIN vs] :
        \A i, j \in DOMAIN o : i # j => o[i] # o[j]}

\* serialize, with the map iterated in the order `order` (both loops iterate
\* the same unmodified map)
serialize(vs, order) ==
    [i \in 1..Len(order) |-> vertex_line(vs[order[i]])]
    \o <<VERTEX_EDGE_DELEMITER>>
    \o Flatten([i \in 1..Len(order) |-> edge_lines(vs[order[i]])])

\* the lines a reader may yield
LinePool ==
    { <<"1">>, <<"2">>, <<"1", " ", "a">>, <<"2", " ", "a", " ", "b">>,
      <<"0", "1">>, <<"+", "1">>, <<" ", "2">>,
      <<"#">>, <<" ", "#">>,
      <<"1", " ", "2">>, <<"2", " ", "1">>, <<"1", " ", "1">>,
      <<"1", " ", "2", " ", "a">>, <<"2", " ", "3">>,
      <<>>, <<"a">>, <<"4", "2", "9", "4", "9", "6", "7", "2", "9", "6">> }

InitCodec ==
    /\ vertices = <<>>
    /\ type = "Undirected"
    /\ last = NoCall
    /\ nops = 0
    /\ pc = "deserialize"
    /\ bfs_call = NoBfsCall
    /\ bfs_st = NoBfs
    /\ doc = <<>>
    /\ scan_state = "Vertex"
    /\ de_res = Ok
    /\ out = <<>>

\* deserialize, the ScanState::Vertex arm for one line of the reader
ReadVertexLine ==
    \E raw \in LinePool :
        LET line == trim(raw)
            vertex == parse_vertex(line)
            added == add_vertex(vertices, vertex.vertex)
        IN  /\ pc = "deserialize"
            /\ scan_state = "Vertex"
            /\ Len(doc) < MaxLines
            /\ doc' = Append(doc, raw)
            /\ IF vertex.res = Ok
               THEN IF added.res = Ok
                    THEN /\ vertices' = added.vs
                         /\ UNCHANGED <<scan_state, pc, de_res>>
                    ELSE /\ de_res' = added.res
                         /\ pc' = "failed"
                         /\ UNCHANGED <<vertices, scan_state>>
               ELSE IF is_delimiter(line)
                    THEN /\ scan_state' = "Edge"
                         /\ UNCHANGED <<vertices, pc, de_res>>
                    ELSE /\ de_res' = vertex.res
                         /\ pc' = "failed"
                         /\ UNCHANGED <<vertices, scan_state>>
            /\ UNCHANGED <<type, last, nops, bfs_vars, out>>

\* an Edge arm that reads a line it cannot parse as an edge as a vertex line
ReadEdgeLine_vertex_fallback ==
    \E raw \in LinePool :
        LET line == trim(raw)
            parsed == parse_edge(line, vertices)
            added == add_edge(vertices, type, parsed.edge.from, parsed.edge.to,
                              parsed.edge.value)
            vertex == parse_vertex(line)
            added_vertex == add_vertex(vertices, vertex.vertex)
        IN  /\ pc = "deserialize"
            /\ scan_state = "Edge"
            /\ Len(doc) < MaxLines
            /\ doc' = Append(doc, raw)
            /\ IF parsed.res # Ok
               THEN IF vertex.res = Ok /\ added_vertex.res = Ok
                    THEN /\ vertices' = added_vertex.vs
                         /\ UNCHANGED <<pc, de_res>>
                    ELSE /\ de_res' = parsed.res
                         /\ pc' = "failed"
                         /\ UNCHANGED vertices
               ELSE IF added.res # Ok
               THEN /\ de_res' = added.res
                    /\ pc' = "failed"
                    /\ vertices' = added.vs
               ELSE /\ vertices' = added.vs
                    /\ UNCHANGED <<pc, de_res>>
            /\ UNCHANGED <<type, last, nops, bfs_vars, scan_state, out>>

\* deserialize, the ScanState::Edge arm for one line of the reader
ReadEdgeLine ==
    \E raw \in LinePool :
        LET line == trim(raw)
            parsed == parse_edge(line, vertices)
            added == add_edge(vertices, type, parsed.edge.from, parsed.edge.to,
                              parsed.edge.value)
        IN  /\ pc = "deserialize"
            /\ scan_state = "Edge"
            /\ Len(doc) < MaxLines
            /\ doc' = Append(doc, raw)
            /\ IF parsed.res # Ok
               THEN /\ de_res' = parsed.res
                    /\ pc' = "failed"
                    /\ UNCHANGED vertices
               ELSE IF added.res # Ok
               THEN /\ de_res' = added.res
                    /\ pc' = "failed"
                    /\ vertices' = added.vs
               ELSE /\ vertices' = added.vs
                    /\ UNCHANGED <<pc, de_res>>
            /\ UNCHANGED <<type, last, nops, bfs_vars, scan_state, out>>

\* the reader is exhausted: deserialize returns Ok(graph)
DeserializeEnd ==
    /\ pc = "deserialize"
    /\ pc' = "deserialized"
    /\ UNCHANGED <<vertices, type, last, nops, bfs_vars, codec_vars>>

\* serialize of the graph deserialize returned
Serialize ==
    \E order \in Orders(vertices) :
        /\ pc = "deserialized"
        /\ out' = serialize(vertices, order)
        /\ pc' = "serialized"
        /\ UNCHANGED <<vertices, type, last, nops, bfs_vars, doc, scan_state, de_res>>

NextCodec == ReadVertexLine \/ ReadEdgeLine \/ DeserializeEnd \/ Serialize

SpecCodec == InitCodec /\ [][NextCodec]_vars

\* ================================================================ properties
\* ---------------------------------------------------------------- helpers
EdgesOf(vs, a) == vs[a].edge_directions

\* the edge directions of a's list that go to b
DirectionsTo(vs, a, b) ==
    {i \in 1..Len(EdgesOf(vs, a)) : EdgesOf(vs, a)[i].to_vertex_id = b}

HasDirection(vs, a, b) == a \in DOMAIN vs /\ DirectionsTo(vs, a, b) # {}

\* the mirror records of the edge direction e stored in a's list: records of
\* kind k in the target's list that point back to a with the same payload
Mirrors(vs, a, e, k) ==
    IF e.to_vertex_id \notin DOMAIN vs THEN {}
    ELSE {j \in DirectionsTo(vs, e.to_vertex_id, a) :
            /\ EdgesOf(vs, e.to_vertex_id)[j].type = k
            /\ EdgesOf(vs, e.to_vertex_id)[j].value = e.value}

RecordIds(records) == {records[i].id : i \in 1..Len(records)}

\* the ids that occur in the neighbour lists of the records
NeighbourIds(records) ==
    UNION {{records[i].neighbour_ids[j] : j \in 1..Len(records[i].neighbour_ids)} :
              i \in 1..Len(records)}

BfsIds(vs, s) == RecordIds(bfs(vs, s).records)

\* the vertices reachable from the set S over edge directions to existing vertices
RECURSIVE Closure(_, _)
Closure(vs, S) ==
    LET N == S \cup {t \in DOMAIN vs : \E k \in S : DirectionsTo(vs, k, t) # {}}
    IN  IF N = S THEN S ELSE Closure(vs, N)

Reachable(vs, s) == Closure(vs, {s})

\* the targets of a vertex's list that are vertices, in list order
LiveTargets(vs, a) == SelectSeq(Targets(vs[a]), LAMBDA t : t \in DOMAIN vs)

\* ---------------------------------------------------------------- C1
\* C1: in an undirected graph every Strong direction A->B has exactly one Weak
\* direction B->A in B's list with the same payload, and every Weak direction
\* has exactly one such Strong counterpart, after any sequence of calls.
C1_StrongWeakPaired ==
    type = "Undirected" =>
        \A a \in DOMAIN vertices : \A i \in 1..Len(EdgesOf(vertices, a)) :
            LET e == EdgesOf(vertices, a)[i]
            IN  Cardinality(Mirrors(vertices, a, e,
                                    IF e.type = "Strong" THEN "Weak" ELSE "Strong")) = 1

\* ---------------------------------------------------------------- C2
\* C2: add_vertex with an id that is already a key returns
\* VertexAlreadyExist(id) and leaves the graph as it was; every vertex is
\* stored under its own id, so no id occurs twice.
C2_DuplicateVertexRejected ==
    /\ [][(last'.op = "add_vertex" /\ last'.a \in DOMAIN vertices)
            => (last'.res = VertexAlreadyExist(last'.a) /\ vertices' = vertices)]_vars
    /\ [](\A k \in DOMAIN vertices : vertices[k].id = k)

\* a duplicate add_vertex was refused on a vertex that has edges and another value
C2_Witness ==
    /\ last.op = "add_vertex"
    /\ last.res.kind = "VertexAlreadyExist"
    /\ vertices[last.a].edge_directions # <<>>
    /\ vertices[last.a].value # last.value

\* ---------------------------------------------------------------- C3
LineSet(lines) == {lines[i] : i \in 1..Len(lines)}

\* a line as the format's grammar writes it: no surrounding whitespace and each
\* leading id token (one in a vertex line, two in an edge line) in the form
\* Display writes, or the lone delimiter
PlainId(token) == parse_u32(token) >= 0 /\ to_string(parse_u32(token)) = token
PlainVertexLine(line) == trim(line) = line /\ PlainId(split(line)[1])
PlainEdgeLine(line) ==
    /\ trim(line) = line
    /\ Len(split(line)) >= 2
    /\ PlainId(split(line)[1])
    /\ PlainId(split(line)[2])

\* the position of the delimiter line in an accepted document, 0 if it has none
DelimiterAt(lines) ==
    IF \E i \in 1..Len(lines) : lines[i] = VERTEX_EDGE_DELEMITER
    THEN CHOOSE i \in 1..Len(lines) :
            /\ lines[i] = VERTEX_EDGE_DELEMITER
            /\ \A j \in 1..(i - 1) : lines[j] # VERTEX_EDGE_DELEMITER
    ELSE 0

\* vertex lines, one delimiter line, edge lines, all written plainly
GrammarDocument(lines) ==
    /\ DelimiterAt(lines) > 0
    /\ \A i \in 1..(DelimiterAt(lines) - 1) : PlainVertexLine(lines[i])
    /\ \A i \in (DelimiterAt(lines) + 1)..Len(lines) : PlainEdgeLine(lines[i])

\* the unordered pair of vertex ids an edge line names
EdgePair(line) == {parse_u32(split(line)[1]), parse_u32(split(line)[2])}

\* no two different edge lines of the document name the same pair
NoPairTwice(lines) ==
    \A i, j \in (DelimiterAt(lines) + 1)..Len(lines) :
        EdgePair(lines[i]) = EdgePair(lines[j]) => lines[i] = lines[j]

\* C3 as claimed: for every document deserialize accepts (vertex lines, one '#'
\* line, edge lines, self-loops and a pair listed as 'a b' and 'b a' included)
\* the set of lines serialize writes equals the set of lines of the document.
C3_RoundTrip ==
    (pc = "serialized" /\ GrammarDocument(doc)) => LineSet(out) = LineSet(doc)

\* C3 as amended: the same for the documents in which no two different edge
\* lines name the same unordered pair of vertices.
C3_RoundTripDistinctPairs ==
    (pc = "serialized" /\ GrammarDocument(doc) /\ NoPairTwice(doc))
        => LineSet(out) = LineSet(doc)

\* a round trip of a document with valued lines, a self-loop and another edge
C3_Witness ==
    /\ pc = "serialized"
    /\ GrammarDocument(doc)
    /\ NoPairTwice(doc)
    /\ \E i \in 1..Len(doc) : doc[i] = <<"1", " ", "1">>
    /\ \E i \in 1..Len(doc) : doc[i] = <<"1", " ", "2", " ", "a">>
    /\ \E k \in DOMAIN vertices : vertices[k].value # NONE

\* C3 without the plain-writing condition on the lines
C3_RoundTripAnyAcceptedLines ==
    (pc = "serialized" /\ DelimiterAt(doc) > 0 /\ NoPairTwice(doc))
        => LineSet(out) = LineSet(doc)

\* ---------------------------------------------------------------- C4
\* C4: the record ids of bfs(s) are exactly the vertices reachable from s over
\* edge directions to existing vertices, s included, each in exactly one
\* record; while the loop runs no unreachable vertex has a record.
C4_BfsVisitsReachableOnce ==
    /\ pc = "loop" =>
          /\ RecordIds(bfs_st.result) \subseteq Reachable(vertices, bfs_call.start_id)
          /\ Cardinality(RecordIds(bfs_st.result)) = Len(bfs_st.result)
    /\ (pc = "done" /\ bfs_call.res = Ok) =>
          /\ RecordIds(bfs_st.result) = Reachable(vertices, bfs_call.start_id)
          /\ Cardinality(RecordIds(bfs_st.result)) = Len(bfs_st.result)

\* a finished run over a graph with a cycle that left an existing vertex unvisited
C4_Witness ==
    /\ pc = "done"
    /\ bfs_call.res = Ok
    /\ Len(bfs_st.result) >= 2
    /\ \E i \in 1..Len(bfs_st.result) : \E j \in 1..i :
          bfs_st.result[j].id \in NeighbourIds(<<bfs_st.result[i]>>)
    /\ \E k \in DOMAIN vertices : k \notin RecordIds(bfs_st.result)

\* ---------------------------------------------------------------- C5
\* C5: in undirected mode, right after add_edge(a, b, v) returns Ok, bfs(a) has
\* a record for b and bfs(b) has a record for a; right after delete_edge(a, b),
\* a's list has no direction to b and b's list has no direction to a.
C5_UndirectedSymmetry ==
    type = "Undirected" =>
        /\ (last.op = "add_edge" /\ last.res = Ok) =>
              /\ last.b \in BfsIds(vertices, last.a)
              /\ last.a \in BfsIds(vertices, last.b)
        /\ last.op = "delete_edge" =>
              /\ ~HasDirection(vertices, last.a, last.b)
              /\ ~HasDirection(vertices, last.b, last.a)

\* delete_edge has just removed an edge between two different vertices
C5_Witness ==
    /\ type = "Undirected"
    /\ last.op = "delete_edge"
    /\ last.changed
    /\ last.a # last.b
    /\ {last.a, last.b} \subseteq DOMAIN vertices

\* ---------------------------------------------------------------- C6
\* C6: in directed mode a successful add_edge(a, b, v) with a # b makes bfs(a)
\* hold a record for b, leaves b's edge list as it was, and bfs(b) holds a record
\* for a after the call only if it did before the call.
C6_DirectedAsymmetry ==
    [][(type = "Directed" /\ last'.op = "add_edge" /\ last'.res = Ok /\ last'.a # last'.b)
        => /\ last'.b \in BfsIds(vertices', last'.a)
           /\ EdgesOf(vertices', last'.b) = EdgesOf(vertices, last'.b)
           /\ (last'.a \in BfsIds(vertices', last'.b)
                  => last'.a \in BfsIds(vertices, last'.b))]_vars

\* a directed edge a -> b was just added and b does not reach a
C6_Witness ==
    /\ type = "Directed"
    /\ last.op = "add_edge"
    /\ last.res = Ok
    /\ last.changed
    /\ last.a # last.b
    /\ last.b \in BfsIds(vertices, last.a)
    /\ last.a \notin BfsIds(vertices, last.b)

\* ---------------------------------------------------------------- C7
\* C7: right after delete_vertex(b), which never fails, b is no vertex and no
\* remaining edge list has a direction to b; and while an id is no vertex of the
\* graph, no bfs result has it as a record id or in a neighbour-id list.
C7_DeleteVertexCascades ==
    /\ last.op = "delete_vertex" =>
          /\ last.res = Ok
          /\ last.a \notin DOMAIN vertices
          /\ \A k \in DOMAIN vertices : ~HasDirection(vertices, k, last.a)
    /\ \A b \in Ids \ DOMAIN vertices : \A s \in DOMAIN vertices :
          /\ b \notin BfsIds(vertices, s)
          /\ b \notin NeighbourIds(bfs(vertices, s).records)

\* delete_vertex has just changed a graph in which an edge is left
C7_Witness ==
    /\ last.op = "delete_vertex"
    /\ last.changed
    /\ \E k \in DOMAIN vertices : EdgesOf(vertices, k) # <<>>

\* ---------------------------------------------------------------- C8
\* C8: in every record of bfs, value is the vertex's value and neighbour_ids is
\* the sequence of the targets of the vertex's edge directions that are
\* vertices, in list order, visited ones included and dangling ones left out;
\* for the undirected chain 1-2-3 the record of 2 in bfs(1) lists 1 and 3, not 2.
C8_NeighbourIdsComplete ==
    /\ \A i \in 1..Len(bfs_st.result) :
          LET r == bfs_st.result[i]
          IN  /\ r.id \in DOMAIN vertices
              /\ r.value = vertices[r.id].value
              /\ r.neighbour_ids = LiveTargets(vertices, r.id)
    /\ (/\ type = "Undirected"
        /\ pc = "done"
        /\ bfs_call = [start_id |-> 1, res |-> Ok]
        /\ DOMAIN vertices = {1, 2, 3}
        /\ \A a, b \in {1, 2, 3} :
              HasDirection(vertices, a, b) <=> {a, b} \in {{1, 2}, {2, 3}})
          => \E i \in 1..Len(bfs_st.result) :
                /\ bfs_st.result[i].id = 2
                /\ {bfs_st.result[i].neighbour_ids[j] :
                       j \in 1..Len(bfs_st.result[i].neighbour_ids)} = {1, 3}

\* a record lists a neighbour visited before it while its vertex also has a
\* dangling target
C8_Witness ==
    /\ pc = "done"
    /\ \E i \in 1..Len(bfs_st.result) :
          LET r == bfs_st.result[i]
          IN  /\ \E j \in 1..(i - 1) : bfs_st.result[j].id \in NeighbourIds(<<r>>)
              /\ \E t \in 1..Len(Targets(vertices[r.id])) :
                    Targets(vertices[r.id])[t] \notin DOMAIN vertices

\* the undirected chain 1-2-3 traversed from 1
C8_ChainTraversed ==
    /\ type = "Undirected"
    /\ pc = "done"
    /\ bfs_call = [start_id |-> 1, res |-> Ok]
    /\ DOMAIN vertices = {1, 2, 3}
    /\ \A a, b \in {1, 2, 3} :
          HasDirection(vertices, a, b) <=> {a, b} \in {{1, 2}, {2, 3}}

\* ---------------------------------------------------------------- C9
\* C9: in undirected mode, whenever add_edge returns VertexNotFound, neither
\* adjacency list has been modified: the graph is as before the call.
C9_UndirectedAddEdgeAtomic ==
    [][(type = "Undirected" /\ last'.op = "add_edge" /\ last'.res.kind = "VertexNotFound")
        => vertices' = vertices]_vars

\* ---------------------------------------------------------------- C10
\* what add_edge(a, b, v) does to a directed graph vs when it appends
AppendedStrong(vs, a, b, v) ==
    [vs EXCEPT ![a].edge_directions = Append(@, EdgeDirection_new(b, v))]

\* C10 as claimed: in directed mode add_edge returns VertexNotFound(to) if to is
\* absent, else VertexNotFound(from) if from is absent, the graph unchanged in
\* both cases; otherwise it inserts a single Strong direction from->to and
\* nothing else.
C10_DirectedAddEdgeInserts ==
    [][(type = "Directed" /\ last'.op = "add_edge")
        => IF last'.b \notin DOMAIN vertices
           THEN last'.res = VertexNotFound(last'.b) /\ vertices' = vertices
           ELSE IF last'.a \notin DOMAIN vertices
           THEN last'.res = VertexNotFound(last'.a) /\ vertices' = vertices
           ELSE /\ last'.res = Ok
                /\ vertices' = AppendedStrong(vertices, last'.a, last'.b, last'.value)]_vars

\* C10 as amended: the same, except that when from's list already holds a
\* direction to `to` the call returns Ok and the graph is unchanged.
C10_DirectedAddEdgeValidates ==
    [][(type = "Directed" /\ last'.op = "add_edge")
        => IF last'.b \notin DOMAIN vertices
           THEN last'.res = VertexNotFound(last'.b) /\ vertices' = vertices
           ELSE IF last'.a \notin DOMAIN vertices
           THEN last'.res = VertexNotFound(last'.a) /\ vertices' = vertices
           ELSE /\ last'.res = Ok
                /\ IF HasDirection(vertices, last'.a, last'.b)
                   THEN vertices' = vertices
                   ELSE vertices' = AppendedStrong(vertices, last'.a, last'.b,
                                                   last'.value)]_vars

\* a directed add_edge was refused for its absent `to` although `from` exists
C10_Witness ==
    /\ type = "Directed"
    /\ last.op = "add_edge"
    /\ last.res = VertexNotFound(last.b)
    /\ last.a \in DOMAIN vertices
    /\ last.a # last.b

\* ---------------------------------------------------------------- C11
\* whether the edge from -> to exists: in directed mode from's list has a
\* direction to `to`; in undirected mode each endpoint's list has a direction
\* to the other, as after an Ok add_edge(from, to, _) or add_edge(to, from, _)
EdgeExists(vs, ty, from_id, to_id) ==
    IF ty = "Directed"
    THEN HasDirection(vs, from_id, to_id)
    ELSE HasDirection(vs, from_id, to_id) /\ HasDirection(vs, to_id, from_id)

\* C11: add_edge(from, to, v2) on an edge that already exists returns Ok and
\* leaves the graph unchanged: the stored payloads and kinds are kept and no
\* second direction to the same target is appended.
C11_DuplicateEdgeNoOp ==
    [][(last'.op = "add_edge" /\ EdgeExists(vertices, type, last'.a, last'.b))
        => (last'.res = Ok /\ vertices' = vertices)]_vars

\* an undirected edge was added again with another payload and nothing changed
C11_Witness ==
    /\ type = "Undirected"
    /\ last.op = "add_edge"
    /\ last.res = Ok
    /\ ~last.changed
    /\ last.a # last.b
    /\ \E i \in DirectionsTo(vertices, last.a, last.b) :
          /\ EdgesOf(vertices, last.a)[i].value # last.value
          /\ EdgesOf(vertices, last.a)[i].type = "Weak"

\* ---------------------------------------------------------------- C12
\* a's list without the directions delete_edge(from, to) names in mode ty
WithoutNamed(vs, ty, from_id, to_id, a) ==
    SelectSeq(EdgesOf(vs, a),
              LAMBDA e : ~(\/ (a = from_id /\ e.to_vertex_id = to_id)
                           \/ (ty = "Undirected" /\ a = to_id /\ e.to_vertex_id = from_id)))

\* C12: delete_edge(from, to) never fails and changes only the named edge: it
\* removes from -> to from from's list and, in undirected mode only, to -> from
\* from to's list; the vertex set, the vertex values and every other edge
\* direction, in its order, stay as they were.
C12_DeleteEdgeFrame ==
    [][last'.op = "delete_edge"
        => /\ last'.res = Ok
           /\ DOMAIN vertices' = DOMAIN vertices
           /\ \A k \in DOMAIN vertices :
                 /\ vertices'[k].id = vertices[k].id
                 /\ vertices'[k].value = vertices[k].value
                 /\ EdgesOf(vertices', k)
                      = WithoutNamed(vertices, type, last'.a, last'.b, k)]_vars

\* delete_edge has just removed a direction from a list that keeps another one
C12_Witness ==
    /\ last.op = "delete_edge"
    /\ last.changed
    /\ last.a \in DOMAIN vertices
    /\ EdgesOf(vertices, last.a) # <<>>

\* ---------------------------------------------------------------- C20
\* C20: after any sequence of API calls, in either mode, no vertex's edge list
\* holds two edge directions with the same target id.
C20_NoDuplicateTargets ==
    \A a \in DOMAIN vertices : \A t \in Ids :
        Cardinality(DirectionsTo(vertices, a, t)) <= 1

\* an add_edge was repeated on a vertex whose list holds two directions
C20_Witness ==
    /\ last.op = "add_edge"
    /\ ~last.changed
    /\ HasDirection(vertices, last.a, last.b)
    /\ Len(EdgesOf(vertices, last.a)) >= 2

\* ---------------------------------------------------------------- C13
\* the line the scanner has read last, trimmed as the scanner trims it
LastLine == trim(doc[Len(doc)])

\* a line that is not the delimiter and whose first token is no unsigned integer
NoNumericLeadingToken(line) ==
    /\ line # VERTEX_EDGE_DELEMITER
    /\ LET tokens == split(line)
       IN  tokens = <<>> \/ parse_u32(tokens[1]) < 0

\* C13: in the reading-vertices state, a line that is not '#' and has no numeric
\* leading token (an empty line, or a first token that is not an unsigned
\* integer) makes deserialize fail with ParseVertexId.
C13_VertexLineWithoutIdIsParseVertexId ==
    (pc = "failed" /\ scan_state = "Vertex" /\ NoNumericLeadingToken(LastLine))
        => de_res.kind = "ParseVertexId"

\* what the scanner returns for such a line: WrongVertexIdType carrying the line
C13_VertexLineWithoutIdIsWrongType ==
    (pc = "failed" /\ scan_state = "Vertex" /\ NoNumericLeadingToken(LastLine))
        => de_res = WrongVertexIdType(LastLine)

\* ---------------------------------------------------------------- C14
\* an edge line whose two leading tokens are ids, one of them undeclared in vs
UndeclaredEndpoint(line, vs) ==
    LET tokens == split(line)
    IN  /\ Len(tokens) >= 2
        /\ parse_u32(tokens[1]) >= 0
        /\ parse_u32(tokens[2]) >= 0
        /\ (parse_u32(tokens[1]) \notin DOMAIN vs \/ parse_u32(tokens[2]) \notin DOMAIN vs)

\* the first of the two endpoints of the line that vs does not hold
FirstMissing(line, vs) ==
    LET tokens == split(line)
    IN  IF parse_u32(tokens[1]) \notin DOMAIN vs
        THEN parse_u32(tokens[1])
        ELSE parse_u32(tokens[2])

\* no edge direction of vs points at an id that is not a vertex of vs
NoDanglingTarget(vs) ==
    \A a \in DOMAIN vs : \A i \in 1..Len(EdgesOf(vs, a)) :
        EdgesOf(vs, a)[i].to_vertex_id \in DOMAIN vs

\* C14: in the reading-edges state, an edge line naming an undeclared endpoint
\* makes deserialize fail with VertexNotFound of the first missing endpoint
\* before anything is inserted, and every graph deserialize returns has no edge
\* direction whose target is not one of its vertices.
C14_UndeclaredEndpointRejected ==
    /\ [][(scan_state = "Edge" /\ Len(doc') > Len(doc)
            /\ UndeclaredEndpoint(trim(doc'[Len(doc')]), vertices))
           => /\ pc' = "failed"
              /\ de_res' = VertexNotFound(FirstMissing(trim(doc'[Len(doc')]), vertices))
              /\ vertices' = vertices]_vars
    /\ [](pc \in {"deserialized", "serialized"} => NoDanglingTarget(vertices))

\* the edge line '2 3' was refused for its second endpoint, the first one declared
C14_Witness ==
    /\ pc = "failed"
    /\ scan_state = "Edge"
    /\ 2 \in DOMAIN vertices
    /\ de_res = VertexNotFound(3)

\* ---------------------------------------------------------------- C15
\* the positions of the edge lines in the lines serialize wrote
EdgeLineIndexes(lines) == (DelimiterAt(lines) + 1)..Len(lines)

\* C15: in every state the API calls can reach, failed calls included,
\* serialize writes no edge line whose from id or to id is not a vertex of the
\* graph: dangling edge targets are left out.
C15_SerializeSkipsDangling ==
    \A order \in Orders(vertices) :
        LET lines == serialize(vertices, order)
        IN  \A i \in EdgeLineIndexes(lines) : EdgePair(lines[i]) \subseteq DOMAIN vertices

\* ---------------------------------------------------------------- C16
\* C16: for an undirected graph in any reachable state, serialize writes at
\* most one edge line per unordered pair {a, b}: 'a b ...' or 'b a ...', never
\* both.
C16_UndirectedEdgeWrittenOnce ==
    type = "Undirected" =>
        \A order \in Orders(vertices) :
            LET lines == serialize(vertices, order)
            IN  \A i, j \in EdgeLineIndexes(lines) :
                    i # j => EdgePair(lines[i]) # EdgePair(lines[j])

\* ---------------------------------------------------------------- C17
\* the number of hops of a shortest path from the set S (d hops from the
\* start) to t over edge directions to existing vertices; -1 if there is none
RECURSIVE HopsFrom(_, _, _, _)
HopsFrom(vs, S, t, d) ==
    IF t \in S
    THEN d
    ELSE LET N == S \cup {u \in DOMAIN vs : \E k \in S : DirectionsTo(vs, k, u) # {}}
         IN  IF N = S THEN -1 ELSE HopsFrom(vs, N, t, d + 1)

Distance(vs, s, t) == HopsFrom(vs, {s}, t, 0)

\* the records are in level order from s and no id occurs twice
LevelOrder(vs, s, records) ==
    /\ records # <<>> => records[1].id = s
    /\ \A i, j \in 1..Len(records) :
          i < j => /\ records[i].id # records[j].id
                   /\ Distance(vs, s, records[i].id) >= 0
                   /\ Distance(vs, s, records[i].id) <= Distance(vs, s, records[j].id)

C17_WitnessChain ==
    /\ pc = "done"
    /\ bfs_call.res = Ok
    /\ Len(bfs_st.result) = 3
    /\ Distance(vertices, bfs_call.start_id, bfs_st.result[3].id) = 2

\* ---------------------------------------------------------------- C19
\* the dequeues bfs may take on the graph vs: its vertices plus its edge directions
DequeueBound(vs) == Cardinality(DOMAIN vs) + EdgeCount(vs)

\* C19: bfs(s) terminates on every finite graph (cycles, self-loops, mirrored
\* undirected edges, dangling targets): every iteration dequeues one entry, the
\* dequeues taken plus the entries still queued never exceed the number of
\* vertices plus the number of edge directions, and the loop can always take
\* its next iteration or return.
C19_BfsTerminates ==
    /\ [](pc = "loop"
            => /\ bfs_st.dequeues + Len(bfs_st.queue_vertex) <= DequeueBound(vertices)
               /\ (ENABLED BfsIterate \/ ENABLED BfsReturn))
    /\ [](pc = "done" /\ bfs_call.res = Ok
            => /\ bfs_st.queue_vertex = <<>>
               /\ bfs_st.dequeues <= DequeueBound(vertices))
    /\ [][(pc = "loop" /\ pc' = "loop") => bfs_st'.dequeues = bfs_st.dequeues + 1]_vars

\* the same as a liveness property of the loop that keeps running: a started
\* traversal returns
C19_BfsEventuallyReturns == (pc = "loop") ~> (pc = "done" /\ bfs_st.queue_vertex = <<>>)

\* a traversal returned from a start vertex that has a self-loop, a mirrored
\* edge and, somewhere in the graph, a dangling target
C19_Witness ==
    /\ pc = "done"
    /\ bfs_call.res = Ok
    /\ Len(bfs_st.result) >= 2
    /\ HasDirection(vertices, bfs_call.start_id, bfs_call.start_id)
    /\ ~NoDanglingTarget(vertices)
    /\ \E b \in DOMAIN vertices :
          /\ b # bfs_call.start_id
          /\ HasDirection(vertices, bfs_call.start_id, b)
          /\ HasDirection(vertices, b, bfs_call.start_id)

\* ---------------------------------------------------------------- C18
\* a line that names two declared vertices by two leading id tokens
ValidEdgeLine(line, vs) ==
    LET tokens == split(line)
    IN  /\ Len(tokens) >= 2
        /\ parse_u32(tokens[1]) \in DOMAIN vs
        /\ parse_u32(tokens[2]) \in DOMAIN vs

\* no vertex of vs has an edge direction
NoEdges(vs) == \A k \in DOMAIN vs : EdgesOf(vs, k) = <<>>

\* what one step of the scanner does, `read` telling whether it consumed a
\* line and `line` being that line
ScannerStep(read, line) ==
    /\ scan_state' # scan_state
          => /\ read
             /\ scan_state = "Vertex"
             /\ scan_state' = "Edge"
             /\ line = VERTEX_EDGE_DELEMITER
             /\ vertices' = vertices
             /\ pc' = pc
    /\ (read /\ scan_state = "Vertex" /\ line = VERTEX_EDGE_DELEMITER)
          => scan_state' = "Edge"
    /\ scan_state = "Edge" => DOMAIN vertices' = DOMAIN vertices
    /\ scan_state' = "Vertex" => NoEdges(vertices')
    /\ (read /\ scan_state = "Edge" /\ ~ValidEdgeLine(line, vertices))
          => (pc' = "failed" /\ vertices' = vertices)

\* C18 as claimed: deserialize is a one-way two-state scanner. It starts
\* reading vertices, switches to reading edges exactly on a line equal to '#',
\* which adds neither a vertex nor an edge, and never switches back; no vertex
\* is added after the delimiter and no edge before it; and in the reading-edges
\* state every line that is not a valid edge line, a second '#' or a bare
\* vertex line included, makes deserialize fail.
C18_OneWayScanner ==
    /\ scan_state = "Vertex"
    /\ [][ScannerStep(Len(doc') > Len(doc), doc'[Len(doc')])]_vars

\* C18 as amended: the same with every line taken without its leading and
\* trailing whitespace, as the scanner trims it before looking at it: the
\* switch happens exactly on a line that equals '#' once trimmed.
C18_OneWayScannerTrimmed ==
    /\ scan_state = "Vertex"
    /\ [][ScannerStep(Len(doc') > Len(doc), trim(doc'[Len(doc')]))]_vars

\* after a vertex, the delimiter and an edge, a second '#' made deserialize fail
C18_Witness ==
    /\ pc = "failed"
    /\ scan_state = "Edge"
    /\ LastLine = VERTEX_EDGE_DELEMITER
    /\ vertices # <<>>
    /\ ~NoEdges(vertices)

\* a bare vertex line after the delimiter made deserialize fail
C18_WitnessVertexLine ==
    /\ pc = "failed"
    /\ scan_state = "Edge"
    /\ LastLine = <<"2">>
    /\ 1 \in DOMAIN vertices

\* ---------------------------------------------------------------- C21
\* C21: a newly added vertex is isolated: right after add_vertex(v) returns Ok,
\* bfs from every vertex that existed before the call returns the records it
\* returned before the call, so v is neither visited nor listed as a neighbour.
C21_NewVertexIsolated ==
    [][(last'.op = "add_vertex" /\ last'.res = Ok)
        => \A s \in DOMAIN vertices :
              bfs(vertices', s).records = bfs(vertices, s).records]_vars

\* the same in a graph without dangling targets: there the new vertex is isolated
C21_NewVertexIsolatedWithoutDangling ==
    [][(last'.op = "add_vertex" /\ last'.res = Ok /\ NoDanglingTarget(vertices))
        => \A s \in DOMAIN vertices :
              bfs(vertices', s).records = bfs(vertices, s).records]_vars

====
